---- MODULE Spec2Model ----
(***************************************************************************)
(* A model of the WFC terrain generator (src/blender): the tile and socket *)
(* model (tile.py), the adjacency table and the grid (wfc_algorithm.py),   *)
(* generate (terrain_generator.py) and the part of the Generate operator   *)
(* that reads the tiles and calls it (addon_operator.py, blender_utils.py).*)
(*                                                                         *)
(* Python values are modelled as follows.  A set of tokens is a set of     *)
(* strings; a dict is a function whose DOMAIN is its key set; a list is a  *)
(* sequence, and a list indexed from 0 by the code is read at index + 1;   *)
(* a weight w is the integer 100 * w; None is the integer -1, which is no   *)
(* tile index.                                                             *)
(*                                                                         *)
(* WFCGrid.__init__ binds possible_tiles_for_cells and collapsed.  It      *)
(* binds no attribute called cells and the class has no method called      *)
(* index, although is_solved, _entropy_cell_indices, collapse_random and   *)
(* generate read self.cells / grid.cells / grid.index.  Reading an unbound *)
(* attribute raises AttributeError in Python, so that is what the model of *)
(* such a read does.                                                       *)
(***************************************************************************)
EXTENDS Integers, Sequences, FiniteSets, TLC

VARIABLES
    entry,                     \* which entry point the caller used: "execute" or "generate"
    collection,                \* cfg.source_collection as the operator sees it
    bases,                     \* generate's argument bases
    size,                      \* generate's argument size = <<sx, sy, sz>>
    post_repair_passes,        \* generate's argument post_repair_passes
    variants,                  \* generate's local variants
    adjacency,                 \* generate's local adjacency (grid.adj)
    possible_tiles_for_cells,  \* grid.possible_tiles_for_cells
    collapsed,                 \* grid.collapsed
    pc,                        \* position of the run
    raised,                    \* the exception that ended the run, "" if none
    report,                    \* what the operator reported: <<level, message>> or <<>>
    result,                    \* what generate returned to its caller
    events,                    \* the step_callback invocations made so far
    collapses,                 \* number of collapse_random calls that returned an index
    repair_passes,             \* number of passes of the repair loop begun so far
    call,                      \* a pure function under test and its arguments
    ret                        \* what that function returned

vars == <<entry, collection, bases, size, post_repair_passes, variants, adjacency,
          possible_tiles_for_cells, collapsed, pc, raised, report, result, events,
          collapses, repair_passes, call, ret>>

inputVars == <<entry, collection, size, post_repair_passes>>
gridVars == <<variants, adjacency, possible_tiles_for_cells, collapsed>>
outVars == <<result, events, collapses, repair_passes>>
pureVars == <<call, ret>>

(***************************************************************************)
(* Bounds of the model.                                                    *)
(***************************************************************************)
MaxDim == 2
MaxRepairPasses == 2

(***************************************************************************)
(* tile.py: directions, tokens, socket compatibility, rotated variants.    *)
(***************************************************************************)
None == -1

DIRECTIONS ==
    << <<"EAST",  <<1, 0, 0>>,  "WFC_E">>,
       <<"WEST",  <<-1, 0, 0>>, "WFC_W">>,
       <<"NORTH", <<0, 1, 0>>,  "WFC_N">>,
       <<"SOUTH", <<0, -1, 0>>, "WFC_S">>,
       <<"UP",    <<0, 0, 1>>,  "WFC_UP">>,
       <<"DOWN",  <<0, 0, -1>>, "WFC_DN">> >>

DirNames == {DIRECTIONS[k][1] : k \in 1..Len(DIRECTIONS)}

OPPOSITE ==
    ("EAST" :> "WEST") @@ ("WEST" :> "EAST") @@ ("NORTH" :> "SOUTH") @@
    ("SOUTH" :> "NORTH") @@ ("UP" :> "DOWN") @@ ("DOWN" :> "UP")

CARDINAL == <<"NORTH", "EAST", "SOUTH", "WEST">>

CARDINAL_set == {CARDINAL[k] : k \in 1..Len(CARDINAL)}

\* dict.get(key, default)
DictGet(d, key, default) == IF key \in DOMAIN d THEN d[key] ELSE default

\* sockets_compatible with the veto looked for in tokens_a alone
sockets_compatible_na_first_only(tokens_a, tokens_b) ==
    IF "NA" \in tokens_a THEN FALSE
    ELSE IF "*" \in tokens_a \/ "*" \in tokens_b THEN TRUE
    ELSE (tokens_a \cap tokens_b) # {}

\* sockets_compatible with the wildcard test ahead of the veto
sockets_compatible_wildcard_first(tokens_a, tokens_b) ==
    IF "*" \in tokens_a \/ "*" \in tokens_b THEN TRUE
    ELSE IF "NA" \in tokens_a \/ "NA" \in tokens_b THEN FALSE
    ELSE (tokens_a \cap tokens_b) # {}

\* WFCTile.sockets_compatible
sockets_compatible(tokens_a, tokens_b) ==
    IF "NA" \in tokens_a \/ "NA" \in tokens_b THEN FALSE
    ELSE IF "*" \in tokens_a \/ "*" \in tokens_b THEN TRUE
    ELSE (tokens_a \cap tokens_b) # {}

\* _rotate_sockets_map turning the other way: CARDINAL[i] goes to CARDINAL[(i - rot) % 4]
_rotate_sockets_map_counter(sockets, rot) ==
    LET r == rot % 4
        src(dst) == CHOOSE s \in DirNames :
                       \E i \in 0..3 : CARDINAL[i + 1] = s /\ CARDINAL[((i - r) % 4) + 1] = dst
    IN  [d \in DirNames |->
           IF d \in {"UP", "DOWN"} THEN DictGet(sockets, d, {"*"})
           ELSE DictGet(sockets, src(d), {"*"})]

\* _rotate_sockets_map writing the wildcard on UP and DOWN instead of copying them
_rotate_sockets_map_resets_vertical(sockets, rot) ==
    LET r == rot % 4
        src(dst) == CHOOSE s \in DirNames :
                       \E i \in 0..3 : CARDINAL[i + 1] = s /\ CARDINAL[((i + r) % 4) + 1] = dst
    IN  [d \in DirNames |->
           IF d \in {"UP", "DOWN"} THEN {"*"}
           ELSE DictGet(sockets, src(d), {"*"})]

\* WFCTileVariant._rotate_sockets_map: out[CARDINAL[(i + rot) % 4]] is a copy
\* of sockets.get(CARDINAL[i], {"*"}); UP and DOWN are copied in place.
_rotate_sockets_map(sockets, rot) ==
    LET r == rot % 4
        src(dst) == CHOOSE s \in DirNames :
                      \E i \in 0..3 : CARDINAL[i + 1] = s /\ CARDINAL[((i + r) % 4) + 1] = dst
    IN  [d \in DirNames |->
           IF d \in {"UP", "DOWN"} THEN DictGet(sockets, d, {"*"})
           ELSE DictGet(sockets, src(d), {"*"})]

\* WFCTileVariant.__init__; the name f"{base.name}_r{rot * 90}" is the pair
\* <<base.name, rot * 90>>.
WFCTileVariant(base, rot) ==
    [name      |-> <<base.name, (rot % 4) * 90>>,
     rot       |-> rot % 4,
     sockets   |-> _rotate_sockets_map(base.sockets, rot % 4),
     weight    |-> base.weight,
     allow_rot |-> FALSE]

\* WFCTile.__init__ with the defaults weight=1.0, allow_rot=True
WFCTile(name, sockets, weight, allow_rot) ==
    [name |-> name, sockets |-> sockets, weight |-> weight, allow_rot |-> allow_rot]

\* create_variants emitting rot = 1, 2, 3 as well for a base with allow_rot
create_variants_with_rotations(bs) ==
    LET F[k \in 0..Len(bs)] ==
            IF k = 0 THEN <<>>
            ELSE F[k - 1] \o
                 (IF bs[k].allow_rot
                    THEN [r \in 1..4 |-> WFCTileVariant(bs[k], r - 1)]
                    ELSE <<WFCTileVariant(bs[k], 0)>>)
    IN  F[Len(bs)]

(***************************************************************************)
(* terrain_generator.py and wfc_algorithm.py: variants, adjacency, grid.   *)
(***************************************************************************)
\* create_variants
create_variants(bs) == [k \in 1..Len(bs) |-> WFCTileVariant(bs[k], 0)]

\* build_adjacency reading the same face of both tiles
build_adjacency_same_face(tiles) ==
    [d \in DirNames |->
       [i \in 0..(Len(tiles) - 1) |->
          {j \in 0..(Len(tiles) - 1) :
             LET socket_a == DictGet(tiles[i + 1].sockets, d, {"*"})
                 socket_b == DictGet(tiles[j + 1].sockets, d, {"*"})
             IN  /\ ~ ("NA" \in socket_a \/ "NA" \in socket_b)
                 /\ sockets_compatible(socket_a, socket_b)}]]

\* build_adjacency looking only at the tiles from i on in the list
build_adjacency_forward_pairs(tiles) ==
    [d \in DirNames |->
       [i \in 0..(Len(tiles) - 1) |->
          {j \in i..(Len(tiles) - 1) :
             LET socket_a == DictGet(tiles[i + 1].sockets, d, {"*"})
                 socket_b == DictGet(tiles[j + 1].sockets, OPPOSITE[d], {"*"})
             IN  /\ ~ ("NA" \in socket_a \/ "NA" \in socket_b)
                 /\ sockets_compatible(socket_a, socket_b)}]]

\* build_adjacency without its compatibility test: only the "NA" skip is left
build_adjacency_skips_only_na(tiles) ==
    [d \in DirNames |->
       [i \in 0..(Len(tiles) - 1) |->
          {j \in 0..(Len(tiles) - 1) :
             LET socket_a == DictGet(tiles[i + 1].sockets, d, {"*"})
                 socket_b == DictGet(tiles[j + 1].sockets, OPPOSITE[d], {"*"})
             IN  ~ ("NA" \in socket_a \/ "NA" \in socket_b)}]]

\* build_adjacency: allowed[direction][i] holds j when neither facing socket
\* holds "NA" and the two are compatible.
build_adjacency(tiles) ==
    [d \in DirNames |->
       [i \in 0..(Len(tiles) - 1) |->
          {j \in 0..(Len(tiles) - 1) :
             LET socket_a == DictGet(tiles[i + 1].sockets, d, {"*"})
                 socket_b == DictGet(tiles[j + 1].sockets, OPPOSITE[d], {"*"})
             IN  /\ ~ ("NA" \in socket_a \/ "NA" \in socket_b)
                 /\ sockets_compatible(socket_a, socket_b)}]]

\* len(range(n)) and len([x] * n): no element when n <= 0
NumCells(sz) ==
    LET n == sz[1] * sz[2] * sz[3] IN IF n > 0 THEN n ELSE 0

\* the index computed with the two horizontal sizes exchanged
index_of_cell_sizes_swapped(sz, x, y, z) == x + sz[2] * (y + sz[1] * z)

\* WFCGrid.index_of_cell
index_of_cell(sz, x, y, z) == x + sz[1] * (y + sz[2] * z)

\* The attributes WFCGrid.__init__ binds on the instance, and the methods the
\* class defines: what a read of self.<name> or grid.<name> can find.
GridAttributes ==
    {"sx", "sy", "sz", "tiles", "adj", "rng", "guidance",
     "possible_tiles_for_cells", "collapsed"}

GridMethods ==
    {"index_of_cell", "in_bounds", "neighbors", "_entropy_cell_indices",
     "collapse_random", "propagate", "is_solved"}

HasAttr(name) == name \in GridAttributes \cup GridMethods

\* WFCGrid.__init__, line 38: every cell starts with set(range(ntiles))
WFCGrid_possible_tiles(sz, ntiles) ==
    [idx \in 0..(NumCells(sz) - 1) |-> 0..(ntiles - 1)]

\* WFCGrid.__init__, line 42: [None] * (size_x * size_y * size_z)
WFCGrid_collapsed(sz, ntiles) ==
    [idx \in 0..(NumCells(sz) - 1) |-> None]

\* a custom property as Blender stores it: absent, a number (in hundredths),
\* a string float() parses, a string float() rejects, or the float nan
Missing == [kind |-> "missing", num |-> 0]

Unparsable == [kind |-> "text", num |-> 0]

NaN == [kind |-> "nan", num |-> 0]

Number(n) == [kind |-> "number", num |-> n]

Numeral(n) == [kind |-> "numeral", num |-> n]

\* weight_from_object returning float(v) as it is, without max and min
weight_from_object_unclamped(obj) ==
    LET v == IF obj.WFC_WEIGHT.kind # "missing" THEN obj.WFC_WEIGHT
             ELSE obj.data_WFC_WEIGHT
    IN  IF v.kind = "missing" THEN 100
        ELSE IF v.kind = "text" THEN 100
        ELSE IF v.kind = "nan" THEN 1
        ELSE v.num

\* weight_from_object(obj): the object's own WFC_WEIGHT, else its mesh data's;
\* max(0.01, min(float(v), 10.0)), where min(nan, 10.0) is nan and
\* max(0.01, nan) is 0.01; 1.0 when float() raises or nothing is stored
weight_from_object(obj) ==
    LET v == IF obj.WFC_WEIGHT.kind # "missing" THEN obj.WFC_WEIGHT
             ELSE obj.data_WFC_WEIGHT
    IN  IF v.kind = "missing" THEN 100
        ELSE IF v.kind = "text" THEN 100
        ELSE IF v.kind = "nan" THEN 1
        ELSE IF v.num > 1000 THEN 1000
        ELSE IF v.num < 1 THEN 1
        ELSE v.num

(***************************************************************************)
(* blender_utils.py and addon_operator.py: the tile-reading step.  A scene *)
(* object carries its type, the name, sockets and rotation flag that lines *)
(* 171-175 of blender_utils.py read from it, and its stored WFC_WEIGHT.    *)
(***************************************************************************)
\* read_bases_from_collection, lines 165-175: the tiles of the MESH objects
read_tiles(coll) ==
    LET meshes == SelectSeq(coll.all_objects, LAMBDA obj : obj.type = "MESH")
    IN  [k \in 1..Len(meshes) |->
           WFCTile(meshes[k].tile.name, meshes[k].tile.sockets,
                   weight_from_object(meshes[k]), meshes[k].tile.allow_rot)]

read_bases_raises(coll) == read_tiles(coll) = <<>>

(***************************************************************************)
(* The inputs the model draws from.                                        *)
(***************************************************************************)
ground ==
    WFCTile("ground",
            [d \in DirNames |-> IF d \in {"UP", "DOWN"} THEN {"ground"} ELSE {"*"}],
            100, FALSE)

air == WFCTile("air", [d \in DirNames |-> {"air"}], 100, FALSE)

na_tile == WFCTile("na", [d \in DirNames |-> {"NA"}], 100, FALSE)

wild == WFCTile("wild", <<>>, 100, TRUE)

road_a == WFCTile("A", ("EAST" :> {"road"}), 100, TRUE)

road_b == WFCTile("B", ("WEST" :> {"road"}), 200, TRUE)

blocked_b == WFCTile("B", ("WEST" :> {"NA"}), 100, TRUE)

GroundAir == <<ground, air>>

OnlyNA == <<na_tile>>

TwoNA == <<na_tile, na_tile>>

TileLists ==
    {<<>>, OnlyNA, TwoNA, <<wild>>, GroundAir, <<road_a, road_b>>, <<road_a, blocked_b>>}

\* the parameters of the step_callback the operator passes to generate
step_callback_params == <<"pos", "tile_idx">>

\* the arguments generate hands to step_callback for a collapse and for a
\* repair reassignment
BuildEventArgs(pos, vi) == <<"build", pos, vi>>

RepairEventArgs(pos, choice) == <<"repair", pos, choice>>

\* a scene object: its type, the name, sockets and rotation flag read from it
\* (tile), and its WFC_WEIGHT property on the object and on its mesh data
SceneObject(type, tile) ==
    [type |-> type, tile |-> tile,
     WFC_WEIGHT |-> Number(tile.weight), data_WFC_WEIGHT |-> Missing]

WeighedMesh(tile, own, data) ==
    [type |-> "MESH", tile |-> tile, WFC_WEIGHT |-> own, data_WFC_WEIGHT |-> data]

RawWeights ==
    {Missing, Unparsable, NaN, Number(-500), Number(0), Number(250), Number(5000),
     Numeral(1), Numeral(1000)}


NoCollection == [picked |-> FALSE, all_objects |-> <<>>]

SceneCollections ==
    {NoCollection,
     [picked |-> TRUE, all_objects |-> <<>>],
     [picked |-> TRUE, all_objects |-> <<SceneObject("EMPTY", wild)>>],
     [picked |-> TRUE, all_objects |-> <<SceneObject("MESH", na_tile)>>],
     [picked |-> TRUE, all_objects |->
        <<SceneObject("MESH", ground), SceneObject("EMPTY", wild),
          SceneObject("MESH", air)>>]}
        \cup {[picked |-> TRUE, all_objects |-> <<WeighedMesh(ground, own, data)>>] :
                 own \in RawWeights, data \in RawWeights}

\* MarsWFCSettings.size_x, size_y, size_z are IntProperty(min=1)
UiSizes == (1..MaxDim) \X (1..MaxDim) \X (1..MaxDim)

\* a direct caller of generate may pass any integers; <<4, 4, 2>> and
\* <<2, 2, 1>> are the sizes of the two scenarios of the specification
CallerSizes ==
    ((-1..MaxDim) \X (-1..MaxDim) \X (-1..MaxDim)) \cup {<<4, 4, 2>>, <<2, 2, 1>>}

TokenUniverse == {"NA", "*", "road", "grass"}

NoCall == [fn |-> "none", tokens_a |-> {}, tokens_b |-> {}]

NotReturned == [done |-> FALSE, value |-> FALSE]

NoResult == [returned |-> FALSE, placements |-> <<>>]

(***************************************************************************)
(* Spec: one run of the Generate operator, or of generate called directly. *)
(***************************************************************************)
Init ==
    /\ entry \in {"execute", "generate"}
    /\ IF entry = "execute"
         THEN /\ collection \in SceneCollections
              /\ bases = <<>>
              /\ size \in UiSizes
              /\ post_repair_passes = 1
         ELSE /\ collection = NoCollection
              /\ bases \in TileLists
              /\ size \in CallerSizes
              /\ post_repair_passes \in 0..MaxRepairPasses
    /\ pc = entry
    /\ variants = <<>>
    /\ adjacency = <<>>
    /\ possible_tiles_for_cells = <<>>
    /\ collapsed = <<>>
    /\ raised = ""
    /\ report = <<>>
    /\ result = NoResult
    /\ events = <<>>
    /\ collapses = 0
    /\ repair_passes = 0
    /\ call = NoCall
    /\ ret = NotReturned

\* MARSWFC_OT_Generate.execute, lines 92-94
ExecuteNoCollection ==
    /\ pc = "execute"
    /\ ~ collection.picked
    /\ report' = <<"ERROR", "Pick a source Collection containing your modular tiles.">>
    /\ pc' = "cancelled"
    /\ UNCHANGED <<inputVars, bases, gridVars, raised, outVars, pureVars>>

\* MARSWFC_OT_Generate.execute, lines 97-101: the ValueError is caught and reported
ExecuteReadFails ==
    /\ pc = "execute"
    /\ collection.picked
    /\ read_bases_raises(collection)
    /\ report' = <<"ERROR", "Tile reading failed.">>
    /\ pc' = "cancelled"
    /\ UNCHANGED <<inputVars, bases, gridVars, raised, outVars, pureVars>>

\* MARSWFC_OT_Generate.execute, lines 97-98 and 180-186: the tiles are read and
\* generate is called with them, with size = (cfg.size_x, cfg.size_y, cfg.size_z)
\* and the default post_repair_passes
ExecuteCallsGenerate ==
    /\ pc = "execute"
    /\ collection.picked
    /\ ~ read_bases_raises(collection)
    /\ bases' = read_tiles(collection)
    /\ pc' = "generate"
    /\ UNCHANGED <<inputVars, gridVars, raised, report, outVars, pureVars>>

\* generate, lines 19-22: the variants, the adjacency table and the grid are
\* built from whatever bases and size hold; nothing is checked
GenerateSetup ==
    /\ pc = "generate"
    /\ variants' = create_variants(bases)
    /\ adjacency' = build_adjacency(variants')
    /\ possible_tiles_for_cells' = WFCGrid_possible_tiles(size, Len(variants'))
    /\ collapsed' = WFCGrid_collapsed(size, Len(variants'))
    /\ pc' = "loop"
    /\ UNCHANGED <<inputVars, bases, raised, report, outVars, pureVars>>

\* the loop test of generate never answering
GenerateIsSolvedSpins ==
    /\ pc = "loop"
    /\ UNCHANGED vars

\* generate, line 24, first evaluation of the loop condition: is_solved, line
\* 228, reads self.cells, which no statement binds; the AttributeError is caught
\* neither by generate nor by execute
GenerateIsSolvedRaises ==
    /\ pc = "loop"
    /\ ~ HasAttr("cells")
    /\ raised' = "AttributeError"
    /\ pc' = "raised"
    /\ UNCHANGED <<inputVars, bases, gridVars, report, outVars, pureVars>>

Next ==
    \/ ExecuteNoCollection
    \/ ExecuteReadFails
    \/ ExecuteCallsGenerate
    \/ GenerateSetup
    \/ GenerateIsSolvedRaises

Spec == Init /\ [][Next]_vars

\* generate is one synchronous call: once entered, its next step is taken
SpecLive == Spec /\ WF_vars(Next)

(***************************************************************************)
(* SpecPure: a pure function applied to arguments drawn from bounded sets. *)
(***************************************************************************)
InitPure ==
    /\ entry = "pure"
    /\ collection = NoCollection
    /\ bases = <<>>
    /\ size = <<0, 0, 0>>
    /\ post_repair_passes = 0
    /\ pc = "call"
    /\ variants = <<>>
    /\ adjacency = <<>>
    /\ possible_tiles_for_cells = <<>>
    /\ collapsed = <<>>
    /\ raised = ""
    /\ report = <<>>
    /\ result = NoResult
    /\ events = <<>>
    /\ collapses = 0
    /\ repair_passes = 0
    /\ call \in [fn : {"sockets_compatible"},
                 tokens_a : SUBSET TokenUniverse,
                 tokens_b : SUBSET TokenUniverse]
    /\ ret = NotReturned

\* WFCTile.sockets_compatible(tokens_a, tokens_b) is called and returns
CallSocketsCompatible ==
    /\ pc = "call"
    /\ call.fn = "sockets_compatible"
    /\ ret' = [done |-> TRUE, value |-> sockets_compatible(call.tokens_a, call.tokens_b)]
    /\ pc' = "returned"
    /\ UNCHANGED <<inputVars, bases, gridVars, raised, report, outVars, call>>

NextPure == CallSocketsCompatible

SpecPure == InitPure /\ [][NextPure]_vars

(***************************************************************************)
(* SpecAdjacency: build_adjacency applied to tile lists drawn from a       *)
(* bounded set.  A tile's socket map names any subset of one axis (EAST and *)
(* WEST, or UP and DOWN); the faces it does not name are read with          *)
(* sockets.get(direction, {"*"}).                                           *)
(***************************************************************************)
MaxTiles == 2

FaceTokens == {{"road"}, {"grass"}, {"NA"}, {"*"}}

SocketMaps ==
    UNION {[S -> FaceTokens] : S \in (SUBSET {"EAST", "WEST"}) \cup (SUBSET {"UP", "DOWN"})}

AdjacencyTiles == {WFCTile("t", m, 100, FALSE) : m \in SocketMaps}

AdjacencyTileLists == UNION {[1..n -> AdjacencyTiles] : n \in 0..MaxTiles}

\* everything but call, ret and pc is idle in a run that calls one function
HarnessIdle ==
    /\ collection = NoCollection
    /\ bases = <<>>
    /\ size = <<0, 0, 0>>
    /\ post_repair_passes = 0
    /\ variants = <<>>
    /\ adjacency = <<>>
    /\ possible_tiles_for_cells = <<>>
    /\ collapsed = <<>>
    /\ raised = ""
    /\ report = <<>>
    /\ result = NoResult
    /\ events = <<>>
    /\ collapses = 0
    /\ repair_passes = 0

InitAdjacency ==
    /\ entry = "build_adjacency"
    /\ pc = "call"
    /\ HarnessIdle
    /\ call \in [fn : {"build_adjacency"}, tiles : AdjacencyTileLists]
    /\ ret = NotReturned

\* build_adjacency(tiles) is called and returns its table
CallBuildAdjacency ==
    /\ pc = "call"
    /\ call.fn = "build_adjacency"
    /\ ret' = [done |-> TRUE, value |-> build_adjacency(call.tiles)]
    /\ pc' = "returned"
    /\ UNCHANGED <<inputVars, bases, gridVars, raised, report, outVars, call>>

NextAdjacency == CallBuildAdjacency

SpecAdjacency == InitAdjacency /\ [][NextAdjacency]_vars

(***************************************************************************)
(* SpecRotate: WFCTileVariant._rotate_sockets_map applied to a socket map  *)
(* and a rotation drawn from bounded sets, and then, for rot = 1, applied  *)
(* again to its own result.                                                *)
(***************************************************************************)
MaxRotateCalls == 5

RotateTokens == {{"a"}, {"b"}}

RotateSocketMaps == UNION {[S -> RotateTokens] : S \in SUBSET DirNames}

RotateArgs == -1..4

\* the faces of the returned dict whose value is a set object built by set(...)
\* in the call, and so shared with no other dict
copied_faces(sockets, rot) == CARDINAL_set \cup {"UP", "DOWN"}

InitRotate ==
    /\ entry = "_rotate_sockets_map"
    /\ pc = "call"
    /\ HarnessIdle
    /\ call \in [fn : {"_rotate_sockets_map"}, sockets : RotateSocketMaps, rot : RotateArgs]
    /\ ret = [done |-> FALSE, value |-> <<>>, copied |-> {}, base |-> <<>>, calls |-> 0]

\* _rotate_sockets_map(sockets, rot) is called and returns; sockets is read
\* with .get only and is afterwards what it was
CallRotateSocketsMap ==
    /\ pc = "call"
    /\ call.fn = "_rotate_sockets_map"
    /\ ret' = [done |-> TRUE,
               value |-> _rotate_sockets_map(call.sockets, call.rot),
               copied |-> copied_faces(call.sockets, call.rot),
               base |-> call.sockets,
               calls |-> 1]
    /\ pc' = "returned"
    /\ UNCHANGED <<inputVars, bases, gridVars, raised, report, outVars, call>>

\* the function is called again with the map it returned and the same rot = 1
CallRotateSocketsMapAgain ==
    /\ pc = "returned"
    /\ call.fn = "_rotate_sockets_map"
    /\ call.rot = 1
    /\ ret.calls < MaxRotateCalls
    /\ ret' = [ret EXCEPT !.value = _rotate_sockets_map(ret.value, 1),
                          !.copied = copied_faces(ret.value, 1),
                          !.calls = @ + 1]
    /\ UNCHANGED <<inputVars, bases, gridVars, raised, report, outVars, call, pc>>

NextRotate ==
    \/ CallRotateSocketsMap
    \/ CallRotateSocketsMapAgain

SpecRotate == InitRotate /\ [][NextRotate]_vars

(***************************************************************************)
(* blender_utils.py: build_guidance_from_settings and the guidance closure *)
(* it returns.  A float is modelled exactly: a height sample and the       *)
(* influence in hundredths, z and target in hundredths, a multiplier in    *)
(* thousandths (the neutral multiplier 1.0 is 1000).  A texture either     *)
(* raises inside evaluate or gives a gray level; an image is w by h gray   *)
(* pixels of one level with a pixel list of length len.                    *)
(***************************************************************************)
has_sampler_tex(cfg) == cfg.heightmap_mode = "TEXTURE" /\ cfg.heightmap_texture.present

has_sampler_img(cfg) ==
    /\ cfg.heightmap_mode = "IMAGE"
    /\ cfg.heightmap_image.present
    /\ cfg.heightmap_image.w > 0 /\ cfg.heightmap_image.h > 0
    /\ cfg.heightmap_image.len > 0

Max(a, b) == IF a >= b THEN a ELSE b

Min(a, b) == IF a <= b THEN a ELSE b

\* sample_tex(u, v): the luminance clamped to [0, 1], or None when anything
\* inside the try raised
sample_tex(cfg) ==
    IF cfg.heightmap_texture.fails THEN None
    ELSE Max(0, Min(100, cfg.heightmap_texture.level))

\* int(u * n) for u = (c + 0.5) / max(1, extent) clamped to [0, 0.999999]
PixelIndex(c, extent, n) ==
    LET e == Max(1, extent)
    IN  IF 2 * c + 1 >= 2 * e THEN n - 1 ELSE ((2 * c + 1) * n) \div (2 * e)

\* sample_img(u, v): reads px[idx], px[idx + 1], px[idx + 2]; an index beyond
\* the list raises IndexError, which nothing catches
sample_img(cfg, x, y) ==
    LET img == cfg.heightmap_image
        ix == PixelIndex(x, cfg.size[1], img.w)
        iy == PixelIndex(y, cfg.size[2], img.h)
        idx == (iy * img.w + ix) * 4
    IN  IF idx + 2 >= img.len
          THEN [raised |-> "IndexError", value |-> None]
          ELSE [raised |-> "", value |-> Max(0, Min(100, img.level))]

sample01(cfg, x, y) ==
    IF has_sampler_tex(cfg) /\ sample_tex(cfg) # None
      THEN [raised |-> "", value |-> sample_tex(cfg)]
      ELSE IF has_sampler_img(cfg) THEN sample_img(cfg, x, y)
      ELSE [raised |-> "", value |-> 0]

\* m * f for a multiplier m in thousandths and a factor f in hundredths
Times(m, f) == (m * f) \div 100

\* guidance(x, y, z, tile_idx) of the closure built for cfg and tiles
guidance(cfg, tiles, x, y, z, tile_idx) ==
    LET s == sample01(cfg, x, y)
        t == tiles[tile_idx + 1]
        up_is_air == "air" \in DictGet(t.sockets, "UP", {})
        up_is_ground == "ground" \in DictGet(t.sockets, "UP", {})
        dn_is_ground == "ground" \in DictGet(t.sockets, "DOWN", {})
        target == s.value * Max(1, cfg.size[3] - 1)
        below ==
            LET m0 == IF up_is_air THEN Times(1000, 10) ELSE 1000
                m1 == IF up_is_ground THEN Times(m0, 150) ELSE m0
            IN  IF dn_is_ground THEN Times(m1, 120) ELSE m1
        at ==
            IF up_is_air /\ dn_is_ground THEN Times(1000, 200)
            ELSE IF up_is_air THEN Times(1000, 150)
            ELSE IF up_is_ground THEN Times(1000, 60)
            ELSE 1000
        above == IF up_is_air THEN Times(150, 80) ELSE 150
        m == IF 100 * z < target - 50 THEN below
             ELSE IF 100 * z - target <= 50 /\ target - 100 * z <= 50 THEN at
             ELSE above
    IN  IF s.raised # "" THEN [raised |-> s.raised, value |-> None]
        ELSE [raised |-> "", value |-> 1000 + ((m - 1000) * cfg.heightmap_influence) \div 100]

(***************************************************************************)
(* SpecGuidance: build_guidance_from_settings is called for settings drawn *)
(* from a bounded set and the closure it returns is called once.           *)
(***************************************************************************)
Levels == {0, 100}

NoTexture == [present |-> FALSE, fails |-> FALSE, level |-> 0]

Textures == {NoTexture} \cup [present : {TRUE}, fails : BOOLEAN, level : Levels]

NoImage == [present |-> FALSE, w |-> 0, h |-> 0, len |-> 0, level |-> 0]

Images == {NoImage} \cup [present : {TRUE}, w : {2}, h : {1}, len : {0, 4, 8}, level : Levels]

GuidanceSizes == (1..MaxDim) \X {1} \X (1..MaxDim)

GuidanceSettings ==
    [use_heightmap : BOOLEAN,
     heightmap_mode : {"IMAGE", "TEXTURE"},
     heightmap_texture : Textures,
     heightmap_image : Images,
     heightmap_influence : {0, 100, 500},
     size : GuidanceSizes]

GuidanceTiles == <<ground, air, wild>>

InitGuidance ==
    /\ entry = "build_guidance_from_settings"
    /\ pc = "call"
    /\ HarnessIdle
    /\ call \in [fn : {"guidance"}, cfg : GuidanceSettings, tiles : {GuidanceTiles},
                 x : 0..(MaxDim - 1), y : {0}, z : 0..(MaxDim - 1),
                 tile_idx : 0..(Len(GuidanceTiles) - 1)]
    /\ ret = [done |-> FALSE, built |-> FALSE, raised |-> "", value |-> None]

\* build_guidance_from_settings(cfg, tiles) returns None or the closure
CallBuildGuidance ==
    /\ pc = "call"
    /\ call.fn = "guidance"
    /\ ret' = [ret EXCEPT !.built = call.cfg.use_heightmap]
    /\ pc' = "built"
    /\ UNCHANGED <<inputVars, bases, gridVars, raised, report, outVars, call>>

\* the closure is called the way collapse_random and the repair pass call it
CallGuidance ==
    /\ pc = "built"
    /\ ret.built
    /\ LET g == guidance(call.cfg, call.tiles, call.x, call.y, call.z, call.tile_idx)
       IN  ret' = [ret EXCEPT !.done = TRUE, !.raised = g.raised, !.value = g.value]
    /\ pc' = "returned"
    /\ UNCHANGED <<inputVars, bases, gridVars, raised, report, outVars, call>>

NextGuidance ==
    \/ CallBuildGuidance
    \/ CallGuidance

SpecGuidance == InitGuidance /\ [][NextGuidance]_vars

\* the name under which each method of WFCGrid reaches the per-cell
\* possibility sets (lines 85, 121 and 146, 183 to 210, 228)
cell_store ==
    [_entropy_cell_indices |-> "cells",
     collapse_random       |-> "cells",
     propagate             |-> "possible_tiles_for_cells",
     is_solved             |-> "cells"]

\* the name under which generate reaches them (lines 32, 47, 53, 66, 79, 81)
generate_cell_store == "cells"

(***************************************************************************)
(* SpecGrid: the methods of WFCGrid called on grids drawn from a bounded   *)
(* set.  possible_tiles_for_cells and collapsed are plain lists of the     *)
(* instance; a grid is drawn with any subset of the tile indices in each   *)
(* uncollapsed cell, and the single set {v} in a cell collapsed to v.      *)
(***************************************************************************)
\* WFCGrid.in_bounds
in_bounds(sz, x, y, z) ==
    /\ 0 <= x /\ x < sz[1]
    /\ 0 <= y /\ y < sz[2]
    /\ 0 <= z /\ z < sz[3]

\* WFCGrid.neighbors: the (direction, (nx, ny, nz)) pairs it yields, in the
\* order of DIRECTIONS
neighbors(sz, x, y, z) ==
    LET all == [k \in 1..Len(DIRECTIONS) |->
                  <<DIRECTIONS[k][1],
                    <<x + DIRECTIONS[k][2][1], y + DIRECTIONS[k][2][2], z + DIRECTIONS[k][2][3]>> >>]
    IN  SelectSeq(all, LAMBDA e : in_bounds(sz, e[2][1], e[2][2], e[2][3]))

\* the allowed set computed from the table of the direction pointing back
allowed_for_neighbor_opposite(adj, direction, possible_tiles_for_cell) ==
    UNION {adj[OPPOSITE[direction]][th] : th \in possible_tiles_for_cell}

\* propagate, lines 193-198: the union, over the tiles still possible in the
\* cell, of the tiles the table allows next to it in that direction
allowed_for_neighbor(adj, direction, possible_tiles_for_cell) ==
    UNION {adj[direction][th] : th \in possible_tiles_for_cell}

\* the allowed tiles added to the neighbour's set instead of intersected with it
common_tiles_added(possible_tiles_for_neighbor_cell, allowed) ==
    possible_tiles_for_neighbor_cell \cup allowed

\* propagate, line 201: possible_tiles_for_neighbor_cell.intersection(allowed_for_neighbor)
common_tiles(possible_tiles_for_neighbor_cell, allowed) ==
    possible_tiles_for_neighbor_cell \cap allowed

\* a narrowed neighbour that is not put back on the queue
q_append_dropped(q, neighbor_idx) == q

\* propagate, line 218: q.append(neighbor_idx)
q_append(q, neighbor_idx) == Append(q, neighbor_idx)

\* propagate, lines 178-218: the for loop over the neighbours of cell idx,
\* from the neighbour at the head of nbrs on; failed is a return False
RECURSIVE propagate_neighbors(_, _, _, _, _, _, _)
propagate_neighbors(sz, adj, idx, nbrs, poss, coll, q) ==
    IF nbrs = <<>>
    THEN [failed |-> FALSE, possible |-> poss, collapsed |-> coll, q |-> q]
    ELSE LET direction == Head(nbrs)[1]
             n == Head(nbrs)[2]
             neighbor_idx == index_of_cell(sz, n[1], n[2], n[3])
             possible_tiles_for_neighbor_cell == poss[neighbor_idx]
             possible_tiles_for_cell == poss[idx]
             tiles_in_common ==
                 common_tiles(possible_tiles_for_neighbor_cell,
                              allowed_for_neighbor(adj, direction, possible_tiles_for_cell))
         IN  IF possible_tiles_for_neighbor_cell = {}
             THEN [failed |-> TRUE, possible |-> poss, collapsed |-> coll, q |-> q]
             ELSE IF tiles_in_common = {}
             THEN [failed |-> TRUE, possible |-> poss, collapsed |-> coll, q |-> q]
             ELSE IF tiles_in_common # possible_tiles_for_neighbor_cell
             THEN propagate_neighbors(sz, adj, idx, Tail(nbrs),
                      [poss EXCEPT ![neighbor_idx] = tiles_in_common],
                      IF Cardinality(tiles_in_common) = 1 /\ coll[neighbor_idx] = None
                          THEN [coll EXCEPT ![neighbor_idx] = CHOOSE v \in tiles_in_common : TRUE]
                          ELSE coll,
                      q_append(q, neighbor_idx))
             ELSE propagate_neighbors(sz, adj, idx, Tail(nbrs), poss, coll, q)

\* propagate, lines 168-221: the while loop, from the queue q on
RECURSIVE propagate_loop(_, _, _, _, _)
propagate_loop(sz, adj, q, poss, coll) ==
    IF q = <<>>
    THEN [value |-> TRUE, possible |-> poss, collapsed |-> coll]
    ELSE LET idx == Head(q)
             x == idx % sz[1]
             y == (idx \div sz[1]) % sz[2]
             z == idx \div (sz[1] * sz[2])
             swept == propagate_neighbors(sz, adj, idx, neighbors(sz, x, y, z),
                                          poss, coll, Tail(q))
         IN  IF swept.failed
             THEN [value |-> FALSE, possible |-> swept.possible, collapsed |-> swept.collapsed]
             ELSE propagate_loop(sz, adj, swept.q, swept.possible, swept.collapsed)

\* propagate, lines 160-165: the collapsed cells, in ascending index
initial_queue(sz, coll) ==
    LET cells == [k \in 1..NumCells(sz) |-> k - 1]
    IN  SelectSeq(cells, LAMBDA idx : coll[idx] # None)

\* propagate starting from the first collapsed cell alone
propagate_first_seed_only(sz, adj, poss, coll) ==
    LET q == initial_queue(sz, coll)
    IN  propagate_loop(sz, adj, IF q = <<>> THEN q ELSE <<Head(q)>>, poss, coll)

\* WFCGrid.propagate: the queue starts with the collapsed cells in ascending
\* index; the result is the returned boolean and the two lists as it leaves them
propagate(sz, adj, poss, coll) ==
    propagate_loop(sz, adj, initial_queue(sz, coll), poss, coll)

\* three tiles that chain along x: east of t0 only t1 fits, east of t1 only
\* t2, east of t2 only t0
chain_0 == WFCTile("t0", ("EAST" :> {"x"}) @@ ("WEST" :> {"z"}), 100, FALSE)

chain_1 == WFCTile("t1", ("EAST" :> {"y"}) @@ ("WEST" :> {"x"}), 100, FALSE)

chain_2 == WFCTile("t2", ("EAST" :> {"z"}) @@ ("WEST" :> {"y"}), 100, FALSE)

GridTileLists == {GroundAir, <<road_a, blocked_b>>, <<chain_0, chain_1, chain_2>>}

GridSizes == {<<2, 1, 1>>, <<3, 1, 1>>, <<2, 2, 1>>, <<1, 1, 2>>}

\* what one cell of a grid can hold
CellStates(ntiles) ==
    {[possible |-> S, collapsed |-> None] : S \in SUBSET (0..(ntiles - 1))}
        \cup {[possible |-> {v}, collapsed |-> v] : v \in 0..(ntiles - 1)}

InitGrid ==
    /\ entry = "WFCGrid"
    /\ pc = "call"
    /\ collection = NoCollection
    /\ post_repair_passes = 0
    /\ bases \in GridTileLists
    /\ size \in GridSizes
    /\ variants = create_variants(bases)
    /\ adjacency = build_adjacency(variants)
    /\ \E cells \in [0..(NumCells(size) - 1) -> CellStates(Len(bases))] :
         /\ possible_tiles_for_cells = [idx \in 0..(NumCells(size) - 1) |-> cells[idx].possible]
         /\ collapsed = [idx \in 0..(NumCells(size) - 1) |-> cells[idx].collapsed]
    /\ raised = ""
    /\ report = <<>>
    /\ result = NoResult
    /\ events = <<>>
    /\ collapses = 0
    /\ repair_passes = 0
    /\ \E fn \in {"propagate", "collapse_random"} :
         call = [fn |-> fn, possible |-> possible_tiles_for_cells, collapsed |-> collapsed]
    /\ ret = [done |-> FALSE, value |-> FALSE, idx |-> None, weights |-> <<>>]

\* grid.propagate() is called: it runs to its return and leaves the two lists
\* as it stored them
CallPropagate ==
    /\ pc = "call"
    /\ call.fn = "propagate"
    /\ LET out == propagate(size, adjacency, possible_tiles_for_cells, collapsed)
       IN  /\ possible_tiles_for_cells' = out.possible
           /\ collapsed' = out.collapsed
           /\ ret' = [ret EXCEPT !.done = TRUE, !.value = out.value]
    /\ pc' = "returned"
    /\ UNCHANGED <<inputVars, bases, variants, adjacency, raised, report, outVars, call>>

\* grid.collapse_random() is called: line 116 calls _entropy_cell_indices,
\* whose line 85 reads self.cells, which no statement binds; nothing is stored
CallCollapseRandomRaises ==
    /\ pc = "call"
    /\ call.fn = "collapse_random"
    /\ ~ HasAttr("cells")
    /\ raised' = "AttributeError"
    /\ ret' = [ret EXCEPT !.done = TRUE]
    /\ pc' = "raised"
    /\ UNCHANGED <<inputVars, bases, gridVars, report, outVars, call>>

NextGrid ==
    \/ CallPropagate
    \/ CallCollapseRandomRaises

SpecGrid == InitGrid /\ [][NextGrid]_vars

(***************************************************************************)
(* SpecIndex: index_of_cell, the decoding of an index and neighbors        *)
(* applied to grid sizes and positions drawn from a bounded set; a         *)
(* position may lie outside the smaller grids.                              *)
(***************************************************************************)
MaxIndexDim == 3

\* propagate, lines 173-175 (and collapse_random, lines 139-141; generate,
\* lines 29-31 and 44-46): the position decoded from an index
decode_index(sz, idx) ==
    <<idx % sz[1], (idx \div sz[1]) % sz[2], idx \div (sz[1] * sz[2])>>

IndexSizes == (1..MaxIndexDim) \X (1..MaxIndexDim) \X (1..MaxIndexDim)

IndexPositions == (0..(MaxIndexDim - 1)) \X (0..(MaxIndexDim - 1)) \X (0..(MaxIndexDim - 1))

InitIndex ==
    /\ entry = "index_of_cell"
    /\ pc = "call"
    /\ collection = NoCollection
    /\ bases = <<>>
    /\ size \in IndexSizes
    /\ post_repair_passes = 0
    /\ variants = <<>>
    /\ adjacency = <<>>
    /\ possible_tiles_for_cells = <<>>
    /\ collapsed = <<>>
    /\ raised = ""
    /\ report = <<>>
    /\ result = NoResult
    /\ events = <<>>
    /\ collapses = 0
    /\ repair_passes = 0
    /\ call \in [fn : {"index_of_cell"}, pos : IndexPositions]
    /\ ret = [done |-> FALSE, idx |-> None, pos |-> <<>>, nbrs |-> <<>>]

\* the index of the position is computed and decoded again, and the
\* neighbours of the position are listed
CallIndexOfCell ==
    /\ pc = "call"
    /\ call.fn = "index_of_cell"
    /\ LET idx == index_of_cell(size, call.pos[1], call.pos[2], call.pos[3])
       IN  ret' = [done |-> TRUE,
                   idx  |-> idx,
                   pos  |-> decode_index(size, idx),
                   nbrs |-> neighbors(size, call.pos[1], call.pos[2], call.pos[3])]
    /\ pc' = "returned"
    /\ UNCHANGED <<inputVars, bases, gridVars, raised, report, outVars, call>>

NextIndex == CallIndexOfCell

SpecIndex == InitIndex /\ [][NextIndex]_vars

(***************************************************************************)
(* SpecRotateSockets: blender_utils._rotate_sockets applied to a socket    *)
(* map and a rotation drawn from bounded sets, and then, for rot = 1,      *)
(* applied again to its own result.  A socket map holds lists of tokens,   *)
(* as _read_socket_props builds them; a token is its text before the last  *)
(* underscore (head), whether it has an underscore (sep) and its text      *)
(* after the last underscore (tail).                                        *)
(***************************************************************************)
\* blender_utils._CARDINAL
_CARDINAL == <<"NORTH", "EAST", "SOUTH", "WEST">>

\* blender_utils._LETTER_TO_DIR
_LETTER_TO_DIR == ("S" :> "SOUTH") @@ ("E" :> "EAST") @@ ("N" :> "NORTH") @@ ("W" :> "WEST")

\* blender_utils._DIR_TO_LETTER
_DIR_TO_LETTER == ("SOUTH" :> "S") @@ ("EAST" :> "E") @@ ("NORTH" :> "N") @@ ("WEST" :> "W")

\* str.upper, str.lower and str.isupper on the one-character tails drawn here
Upper(letter) ==
    IF letter = "n" THEN "N" ELSE IF letter = "e" THEN "E"
    ELSE IF letter = "s" THEN "S" ELSE IF letter = "w" THEN "W" ELSE letter

Lower(letter) ==
    IF letter = "N" THEN "n" ELSE IF letter = "E" THEN "e"
    ELSE IF letter = "S" THEN "s" ELSE IF letter = "W" THEN "w" ELSE letter

IsUpper(letter) == letter \in {"N", "E", "S", "W"}

\* len(tail) == 1 for the tails drawn here
OneLetter(tail) == tail \in {"N", "E", "S", "W", "n", "e", "s", "w", "x"}

\* blender_utils._rotate_cardinal_dir
_rotate_cardinal_dir(direction, rot) ==
    IF \A k \in 1..Len(_CARDINAL) : _CARDINAL[k] # direction
      THEN direction
      ELSE LET i == (CHOOSE k \in 1..Len(_CARDINAL) : _CARDINAL[k] = direction) - 1
           IN  _CARDINAL[((i - (rot % 4)) % 4) + 1]

\* blender_utils._rotate_dir_letter
_rotate_dir_letter(letter, rot) ==
    LET up == Upper(letter)
    IN  IF up \notin DOMAIN _LETTER_TO_DIR THEN letter
        ELSE LET rotated_letter == _DIR_TO_LETTER[_rotate_cardinal_dir(_LETTER_TO_DIR[up], rot)]
             IN  IF IsUpper(letter) THEN rotated_letter ELSE Lower(rotated_letter)

\* blender_utils._rotate_token_suffix
_rotate_token_suffix(token, rot) ==
    IF ~ token.sep THEN token
    ELSE IF OneLetter(token.tail) /\ Upper(token.tail) \in DOMAIN _LETTER_TO_DIR
      THEN [token EXCEPT !.tail = _rotate_dir_letter(token.tail, rot)]
      ELSE token

\* the token "*"
Star == [head |-> "*", sep |-> FALSE, tail |-> ""]

\* _rotate_sockets taking each face from the direction rot steps the other way
_rotate_sockets_source_forward(original, rot) ==
    LET r == rot % 4
        get(d) == IF d \in DOMAIN original THEN original[d] ELSE <<Star>>
    IN  [d \in DirNames |->
           IF d \in {"UP", "DOWN"} THEN get(d)
           ELSE LET tokens == get(_rotate_cardinal_dir(d, r))
                IN  [k \in 1..Len(tokens) |-> _rotate_token_suffix(tokens[k], r)]]

\* blender_utils._rotate_sockets, for a map whose values are lists of strings
_rotate_sockets(original, rot) ==
    LET r == rot % 4
        get(d) == IF d \in DOMAIN original THEN original[d] ELSE <<Star>>
    IN  [d \in DirNames |->
           IF d \in {"UP", "DOWN"} THEN get(d)
           ELSE LET tokens == get(_rotate_cardinal_dir(d, 0 - r))
                IN  [k \in 1..Len(tokens) |-> _rotate_token_suffix(tokens[k], r)]]

\* "road", "slope_E", "ramp_n", "x_EE" and "a_x"
SocketTokenLists ==
    {<<[head |-> "road", sep |-> FALSE, tail |-> ""]>>,
     <<[head |-> "slope", sep |-> TRUE, tail |-> "E"]>>,
     <<[head |-> "ramp", sep |-> TRUE, tail |-> "n"],
       [head |-> "x", sep |-> TRUE, tail |-> "EE"],
       [head |-> "a", sep |-> TRUE, tail |-> "x"]>>}

ObjectSocketMaps == UNION {[S -> SocketTokenLists] : S \in SUBSET DirNames}

InitRotateSockets ==
    /\ entry = "_rotate_sockets"
    /\ pc = "call"
    /\ HarnessIdle
    /\ call \in [fn : {"_rotate_sockets"}, original : ObjectSocketMaps, rot : RotateArgs]
    /\ ret = [done |-> FALSE, value |-> <<>>, calls |-> 0]

\* _rotate_sockets(original, rot) is called and returns a new dict
CallRotateSockets ==
    /\ pc = "call"
    /\ call.fn = "_rotate_sockets"
    /\ ret' = [done |-> TRUE, value |-> _rotate_sockets(call.original, call.rot), calls |-> 1]
    /\ pc' = "returned"
    /\ UNCHANGED <<inputVars, bases, gridVars, raised, report, outVars, call>>

\* the function is called again with the map it returned and the same rot = 1
CallRotateSocketsAgain ==
    /\ pc = "returned"
    /\ call.fn = "_rotate_sockets"
    /\ call.rot = 1
    /\ ret.calls < MaxRotateCalls
    /\ ret' = [ret EXCEPT !.value = _rotate_sockets(ret.value, 1), !.calls = @ + 1]
    /\ UNCHANGED <<inputVars, bases, gridVars, raised, report, outVars, call, pc>>

NextRotateSockets ==
    \/ CallRotateSockets
    \/ CallRotateSocketsAgain

SpecRotateSockets == InitRotateSockets /\ [][NextRotateSockets]_vars

(***************************************************************************)
(* SpecOrder: the sweep of propagate taken one queue entry at a time, the  *)
(* entry taken from any place of the queue.  The code takes the leftmost   *)
(* (q.popleft(), line 170); taking any is what "any processing order"      *)
(* ranges over, and the leftmost is one of the choices.                     *)
(***************************************************************************)
\* q without its k-th entry
RemoveAt(q, k) == SubSeq(q, 1, k - 1) \o SubSeq(q, k + 1, Len(q))

InitOrder ==
    /\ entry = "propagate_order"
    /\ pc = "loop"
    /\ collection = NoCollection
    /\ post_repair_passes = 0
    /\ bases \in GridTileLists
    /\ size \in GridSizes
    /\ variants = create_variants(bases)
    /\ adjacency = build_adjacency(variants)
    /\ \E cells \in [0..(NumCells(size) - 1) -> CellStates(Len(bases))] :
         /\ possible_tiles_for_cells = [idx \in 0..(NumCells(size) - 1) |-> cells[idx].possible]
         /\ collapsed = [idx \in 0..(NumCells(size) - 1) |-> cells[idx].collapsed]
    /\ raised = ""
    /\ report = <<>>
    /\ result = NoResult
    /\ events = <<>>
    /\ collapses = 0
    /\ repair_passes = 0
    /\ call = [fn |-> "propagate", possible |-> possible_tiles_for_cells, collapsed |-> collapsed]
    /\ ret = [done |-> FALSE, value |-> FALSE, q |-> initial_queue(size, collapsed)]

\* one pass of the while loop, lines 168-218, for an entry of the queue: its
\* neighbours are narrowed; a return False ends the call
OrderProcessEntry ==
    /\ pc = "loop"
    /\ \E k \in 1..Len(ret.q) :
         LET idx == ret.q[k]
             p == decode_index(size, idx)
             swept == propagate_neighbors(size, adjacency, idx,
                                          neighbors(size, p[1], p[2], p[3]),
                                          possible_tiles_for_cells, collapsed,
                                          RemoveAt(ret.q, k))
         IN  /\ possible_tiles_for_cells' = swept.possible
             /\ collapsed' = swept.collapsed
             /\ IF swept.failed
                  THEN /\ ret' = [done |-> TRUE, value |-> FALSE, q |-> swept.q]
                       /\ pc' = "returned"
                  ELSE /\ ret' = [ret EXCEPT !.q = swept.q]
                       /\ pc' = "loop"
    /\ UNCHANGED <<inputVars, bases, variants, adjacency, raised, report, outVars, call>>

\* line 221: the queue is empty, propagate returns True
OrderReturnTrue ==
    /\ pc = "loop"
    /\ ret.q = <<>>
    /\ ret' = [ret EXCEPT !.done = TRUE, !.value = TRUE]
    /\ pc' = "returned"
    /\ UNCHANGED <<inputVars, bases, gridVars, raised, report, outVars, call>>

NextOrder ==
    \/ OrderProcessEntry
    \/ OrderReturnTrue

SpecOrder == InitOrder /\ [][NextOrder]_vars

(***************************************************************************)
(* State functions the properties are stated with.                         *)
(***************************************************************************)
\* the run is inside generate or has left it
InGenerate == pc \in {"generate", "loop", "returned", "raised"}

\* generate has built its grid (line 22 is behind it)
GridBuilt == pc \in {"loop", "returned", "raised"}

\* generate is over: it returned its result or an exception left it
GenerateEnded == pc \in {"returned", "raised"}

\* what section 6 of the specification asks of the inputs
ValidInput == bases # <<>> /\ size[1] >= 1 /\ size[2] >= 1 /\ size[3] >= 1

CellIndices == 0..(NumCells(size) - 1)

\* the position of cell idx, as lines 29-31, 44-46, 139-141, 173-175 decode it
CellPos(idx) ==
    <<idx % size[1], (idx \div size[1]) % size[2], idx \div (size[1] * size[2])>>

\* nidx is the in-bounds neighbour of idx in direction DIRECTIONS[k]
IsNeighbour(idx, k, nidx) ==
    /\ size[1] >= 1 /\ size[2] >= 1 /\ size[3] >= 1
    /\ idx \in CellIndices /\ nidx \in CellIndices
    /\ \A c \in 1..3 : CellPos(nidx)[c] = CellPos(idx)[c] + DIRECTIONS[k][2][c]

\* a placement list is adjacency-consistent under the table generate built
PlacementsConsistent(placements) ==
    \A a, b \in 1..Len(placements) : \A k \in 1..Len(DIRECTIONS) :
        (\A c \in 1..3 : placements[b][c] = placements[a][c] + DIRECTIONS[k][2][c])
            => placements[b][4] \in adjacency[DIRECTIONS[k][1]][placements[a][4]]

\* one entry <<x, y, z, v>> per cell whose collapsed value is v, in ascending
\* z, then y, then x (which is ascending index)
CollapsedPlacements ==
    LET all == [k \in 1..NumCells(size) |-> k - 1]
        sel == SelectSeq(all, LAMBDA idx : collapsed[idx] # None)
    IN  [k \in 1..Len(sel) |->
           <<CellPos(sel[k])[1], CellPos(sel[k])[2], CellPos(sel[k])[3], collapsed[sel[k]]>>]

(***************************************************************************)
(* C1.  Stated as the contract of generate: a run on valid input that did  *)
(* not stall (no run of this model calls propagate, so none stalls) ends by *)
(* returning placements in which, for every two placed cells C and N with  *)
(* N the neighbour of C in direction D, value(N) is in                      *)
(* adjacency[D][value(C)].  The code does not deliver it: every run ends   *)
(* with AttributeError before the first collapse.                          *)
(***************************************************************************)
C1_ConsistentPlacements ==
    (GenerateEnded /\ ValidInput)
        => (result.returned /\ PlacementsConsistent(result.placements))

(***************************************************************************)
(* C2.  In every state, for every cell: collapsed[idx] is some v if and    *)
(* only if the cell's possibility set equals {v}; this includes the        *)
(* freshly constructed grid of a tile list with exactly one tile.  The     *)
(* constructor leaves such a grid with possibility sets {0} and collapsed  *)
(* None.                                                                   *)
(***************************************************************************)
C2_CollapsedIffSingleton ==
    \A idx \in DOMAIN collapsed : \A v \in 0..(Len(variants) - 1) :
        (collapsed[idx] = v) <=> (possible_tiles_for_cells[idx] = {v})

(***************************************************************************)
(* C3.  No cell's possibility set is empty while the run is Running (the   *)
(* main loop has not been left).  generate checks nothing about bases, so  *)
(* for an empty tile list every cell is constructed empty and the loop is  *)
(* entered.                                                                *)
(***************************************************************************)
C3_NoEmptyCellWhileRunning ==
    (pc = "loop") => \A idx \in DOMAIN possible_tiles_for_cells :
                         possible_tiles_for_cells[idx] # {}

(***************************************************************************)
(* C4.  Termination of generate is normal whether or not propagation hit a *)
(* contradiction: the run ends by returning a result whose placement list  *)
(* has exactly one entry <<x, y, z, v>> per cell whose collapsed value is  *)
(* v, in ascending z, y, x, and none for an unresolved cell.  The code     *)
(* ends every run with an exception instead.                               *)
(***************************************************************************)
C4_ReturnsCollapsedCells ==
    (GenerateEnded /\ ValidInput)
        => (result.returned /\ raised = "" /\ result.placements = CollapsedPlacements)

(***************************************************************************)
(* C6.  The ground/air scenario on a (4,4,2) grid.  GroundIdx and AirIdx   *)
(* are the variant indices of the two tiles.                               *)
(***************************************************************************)
GroundIdx == CHOOSE i \in 0..(Len(GroundAir) - 1) : GroundAir[i + 1] = ground
AirIdx == CHOOSE i \in 0..(Len(GroundAir) - 1) : GroundAir[i + 1] = air

GroundAirScenario == bases = GroundAir /\ size = <<4, 4, 2>> /\ GridBuilt

\* the layout the specification gives to Solved runs: ground at z = 0, air at z = 1
ClaimedLayout == [idx \in CellIndices |-> IF CellPos(idx)[3] = 0 THEN GroundIdx ELSE AirIdx]

C7_OneCollapseOnePlacement ==
    (entry = "generate" /\ bases = OnlyNA /\ size = <<2, 2, 1>> /\ GenerateEnded)
        => (collapses = 1 /\ result.returned /\ Len(result.placements) = 1)

(***************************************************************************)
(* C8.  An empty tile list or a non-positive grid dimension is rejected    *)
(* before any solving begins: with such an input generate never builds its *)
(* grid and never enters its main loop.  The code builds the grid and      *)
(* enters the loop for every input.                                        *)
(***************************************************************************)
C8_InvalidInputRejected ==
    (InGenerate /\ ~ ValidInput)
        => (~ GridBuilt /\ collapses = 0 /\ ~ result.returned)

(***************************************************************************)
(* C9.  sockets_compatible(A, B) is False whenever NA is in A or in B,     *)
(* even when * is present; otherwise True whenever * is in A or in B;      *)
(* otherwise True exactly when A and B share a token.  In particular       *)
(* sockets_compatible({*}, S) is True for every S without NA.              *)
(***************************************************************************)
C9_SocketRules ==
    (ret.done /\ call.fn = "sockets_compatible") =>
        LET A == call.tokens_a
            B == call.tokens_b
        IN  /\ ("NA" \in A \cup B) => (ret.value = FALSE)
            /\ ("NA" \notin A \cup B /\ "*" \in A \cup B) => (ret.value = TRUE)
            /\ ("NA" \notin A \cup B /\ "*" \notin A \cup B)
                   => (ret.value = (\E t \in A : t \in B))
            /\ (A = {"*"} /\ "NA" \notin B) => (ret.value = TRUE)

\* the veto has overridden a wildcard
C9_Witness ==
    /\ ret.done
    /\ call.tokens_a = {"*"}
    /\ call.tokens_b = {"NA", "*", "road"}
    /\ ret.value = FALSE

(***************************************************************************)
(* C10.  sockets_compatible is commutative: the value returned for (A, B)  *)
(* is the value of the function on (B, A).                                 *)
(***************************************************************************)
C10_Commutative ==
    (ret.done /\ call.fn = "sockets_compatible")
        => (ret.value = sockets_compatible(call.tokens_b, call.tokens_a))

\* an asymmetric pair of arguments has been answered
C10_Witness ==
    /\ ret.done
    /\ call.tokens_a = {"*", "road"}
    /\ call.tokens_b = {"NA"}
    /\ ret.value = FALSE

(***************************************************************************)
(* C11.  The table build_adjacency returns has, for every direction D and  *)
(* every ordered pair of indices (i, j), j in allowed[D][i] exactly when   *)
(* sockets_compatible(tiles[i].sockets[D], tiles[j].sockets[opposite(D)]), *)
(* a face missing from a socket map counting as {*}.  So with A's EAST     *)
(* {road} and B's WEST {road}, B is in allowed[EAST][A]; with B's WEST     *)
(* {NA}, B is not in allowed[EAST][A] whatever A's EAST face is.           *)
(***************************************************************************)
C11_AdjacencyIffCompatible ==
    (ret.done /\ call.fn = "build_adjacency") =>
        LET tiles == call.tiles
            allowed == ret.value
            face(t, d) == IF d \in DOMAIN t.sockets THEN t.sockets[d] ELSE {"*"}
        IN  /\ DOMAIN allowed = DirNames
            /\ \A d \in DirNames :
                 /\ DOMAIN allowed[d] = 0..(Len(tiles) - 1)
                 /\ \A i, j \in 0..(Len(tiles) - 1) :
                      /\ (j \in allowed[d][i])
                            <=> sockets_compatible(face(tiles[i + 1], d),
                                                   face(tiles[j + 1], OPPOSITE[d]))
                      /\ (d = "EAST" /\ face(tiles[i + 1], "EAST") = {"road"}
                                     /\ face(tiles[j + 1], "WEST") = {"road"})
                            => j \in allowed[d][i]
                      /\ (d = "EAST" /\ face(tiles[j + 1], "WEST") = {"NA"})
                            => j \notin allowed[d][i]

\* the table of A (EAST road) and B (WEST NA) has been built: B is not allowed
\* east of A, and A, whose WEST face is missing, is allowed east of itself
C11_Witness ==
    /\ ret.done
    /\ call.fn = "build_adjacency"
    /\ Len(call.tiles) = 2
    /\ call.tiles[1].sockets = ("EAST" :> {"road"})
    /\ call.tiles[2].sockets = ("WEST" :> {"NA"})
    /\ ret.value["EAST"][0] = {0}

(***************************************************************************)
(* C12.  The variant list generate builds first holds, for each base tile  *)
(* in input order, the rot = 0 variant and, when the tile's allow_rot flag *)
(* is true, the rot = 1, 2, 3 variants after it in ascending rot; a tile   *)
(* with allow_rot false gives exactly one variant.                         *)
(***************************************************************************)
\* the names (base name, degrees) of the variants the statement above lists
ClaimedVariantNames(bs) ==
    LET F[k \in 0..Len(bs)] ==
            IF k = 0 THEN <<>>
            ELSE F[k - 1] \o
                 (IF bs[k].allow_rot
                    THEN [r \in 1..4 |-> <<bs[k].name, (r - 1) * 90>>]
                    ELSE << <<bs[k].name, 0>> >>)
    IN  F[Len(bs)]

C13_KeysShiftedByRot ==
    (ret.done /\ call.fn = "_rotate_sockets_map" /\ ret.calls = 1) =>
        LET S == call.sockets
            R == ret.value
            r == call.rot % 4
            face(d) == IF d \in DOMAIN S THEN S[d] ELSE {"*"}
        IN  /\ DOMAIN R = DirNames
            /\ \A i \in 0..3 : R[CARDINAL[((i + r) % 4) + 1]] = face(CARDINAL[i + 1])
            /\ R["UP"] = face("UP")
            /\ R["DOWN"] = face("DOWN")
            /\ ret.copied = DOMAIN R
            /\ ret.base = S

\* a quarter turn has moved NORTH's {a} to EAST and EAST's {b} to SOUTH
C13_Witness ==
    /\ ret.done
    /\ call.fn = "_rotate_sockets_map"
    /\ ret.calls = 1
    /\ call.rot = 1
    /\ call.sockets = [d \in DirNames |-> IF d = "NORTH" THEN {"a"} ELSE {"b"}]
    /\ ret.value["EAST"] = {"a"}
    /\ ret.value["NORTH"] = {"b"}

(***************************************************************************)
(* C14.  Rotation closure: for every socket map S, _rotate_sockets_map     *)
(* with rot = 1 applied four times in succession gives a map equal to S    *)
(* (same keys, same token sets).                                           *)
(***************************************************************************)
\* S with every face it does not name filled in with the wildcard
Completed(S) == [d \in DirNames |-> IF d \in DOMAIN S THEN S[d] ELSE {"*"}]

\* four quarter turns of call.sockets have been made
FourQuarterTurns ==
    /\ ret.done
    /\ call.fn = "_rotate_sockets_map"
    /\ call.rot = 1
    /\ ret.calls = Len(CARDINAL)

\* C14 as the specification states it
C14_FourTurnsReturnS == FourQuarterTurns => ret.value = call.sockets

\* C14 as amended: four quarter turns of S give S with every face S does not
\* name filled in with {*}; that is S itself exactly when S names all six
\* faces.
C14_FourTurnsReturnCompletedS ==
    FourQuarterTurns =>
        /\ ret.value = Completed(call.sockets)
        /\ (ret.value = call.sockets) <=> (DOMAIN call.sockets = DirNames)

\* four quarter turns of a map naming all six faces, two of them unlike the
\* rest, have come back to it
C14_Witness ==
    /\ FourQuarterTurns
    /\ call.sockets = [d \in DirNames |-> IF d \in {"NORTH", "UP"} THEN {"a"} ELSE {"b"}]
    /\ ret.value = call.sockets

(***************************************************************************)
(* C15.  Idempotent repair: when, at the start of the repair phase, every  *)
(* collapsed cell's value lies in the allowed set the repair pass computes *)
(* for it from its collapsed neighbours, generate makes no reassignment,   *)
(* emits no repair event and stops the repair loop after one pass, however *)
(* many passes are configured, and then returns.                           *)
(***************************************************************************)
\* the set the repair pass intersects for cell idx: adjacency[dir_name][ncur]
\* over the collapsed in-bounds neighbours, dir_name the direction from idx
RepairAllowed(idx) ==
    {v \in 0..(Len(variants) - 1) :
        \A k \in 1..Len(DIRECTIONS) : \A nidx \in CellIndices :
            (IsNeighbour(idx, k, nidx) /\ collapsed[nidx] # None)
                => v \in adjacency[DIRECTIONS[k][1]][collapsed[nidx]]}

RepairEvents == SelectSeq(events, LAMBDA e : e[1] = "repair")

C15_IdempotentRepair ==
    (/\ GenerateEnded /\ ValidInput
     /\ post_repair_passes > 0
     /\ \A idx \in CellIndices :
            collapsed[idx] # None => collapsed[idx] \in RepairAllowed(idx))
        => (result.returned /\ repair_passes = 1 /\ RepairEvents = <<>>)

(***************************************************************************)
(* C16.  The repair phase starts after the main loop has ended, runs at    *)
(* most post_repair_passes passes, none when post_repair_passes is 0, at   *)
(* least one otherwise, and generate then returns.                         *)
(***************************************************************************)
C16_RepairPassesBounded ==
    (GenerateEnded /\ ValidInput)
        => /\ result.returned
           /\ repair_passes <= post_repair_passes
           /\ (post_repair_passes > 0) => (repair_passes >= 1)

(***************************************************************************)
(* C17.  Every callback invocation is made with (phase, position, variant  *)
(* index), phase "build" for a collapse of the main loop and "repair" for  *)
(* a repair reassignment, every build event before every repair event, one *)
(* build event per collapse; and the callback the Generate operator wires  *)
(* in accepts these invocations, so that a run of the operator on valid    *)
(* input ends without an exception.                                        *)
(***************************************************************************)
C17_CallbackAcceptsEvents ==
    (entry = "execute" /\ GenerateEnded /\ ValidInput)
        => /\ raised = ""
           /\ Len(step_callback_params) = Len(BuildEventArgs(<<0, 0, 0>>, 0))
           /\ Len(step_callback_params) = Len(RepairEventArgs(<<0, 0, 0>>, 0))
           /\ \A a, b \in 1..Len(events) :
                 /\ events[a][1] \in {"build", "repair"}
                 /\ (events[a][1] = "repair" /\ events[b][1] = "build") => b < a
           /\ Len(events) - Len(RepairEvents) = collapses

C19_SolvedMeansFullPlacements ==
    (/\ GenerateEnded /\ ValidInput
     /\ \A idx \in CellIndices : Cardinality(possible_tiles_for_cells[idx]) = 1)
        => /\ result.returned
           /\ \A idx \in CellIndices : collapsed[idx] # None
           /\ Len(result.placements) = NumCells(size)
           /\ \A idx \in CellIndices :
                 \E k \in 1..Len(result.placements) :
                    <<result.placements[k][1], result.placements[k][2],
                      result.placements[k][3]>> = CellPos(idx)

(***************************************************************************)
(* C20.  When the heightmap sampler behind the guidance function fails,    *)
(* by raising or by giving no value, the guidance function does not raise  *)
(* and returns the neutral multiplier 1.0 for that call, whatever the      *)
(* position and the tile index.                                            *)
(***************************************************************************)
\* the sampler consulted for this call failed: the texture raised inside
\* evaluate, or the image read ran off its pixel list
SamplerFailed ==
    \/ has_sampler_tex(call.cfg) /\ sample_tex(call.cfg) = None
    \/ /\ ~ has_sampler_tex(call.cfg)
       /\ has_sampler_img(call.cfg)
       /\ sample_img(call.cfg, call.x, call.y).raised # ""

C20_SamplerFailureIsNeutral ==
    (ret.done /\ call.fn = "guidance" /\ SamplerFailed)
        => (ret.raised = "" /\ ret.value = 1000)

(***************************************************************************)
(* C21.  Every tile handed to the solver has 0.01 <= weight <= 10.0: a     *)
(* weight read from the tile source is clamped into that range and a       *)
(* missing or unparsable weight becomes 1.0.                               *)
(***************************************************************************)
\* the mesh objects of the source collection, in order
SourceMeshes == SelectSeq(collection.all_objects, LAMBDA obj : obj.type = "MESH")

C21_WeightsClamped ==
    (entry = "execute" /\ InGenerate) =>
        /\ Len(bases) = Len(SourceMeshes)
        /\ \A k \in 1..Len(bases) :
             LET own == SourceMeshes[k].WFC_WEIGHT
                 stored == IF own.kind # "missing" THEN own
                           ELSE SourceMeshes[k].data_WFC_WEIGHT
                 w == bases[k].weight
             IN  /\ 1 <= w /\ w <= 1000
                 /\ stored.kind \in {"missing", "text"} => w = 100
                 /\ (stored.kind \in {"number", "numeral"} /\ stored.num > 1000) => w = 1000
                 /\ (stored.kind \in {"number", "numeral"} /\ stored.num < 1) => w = 1
                 /\ (stored.kind \in {"number", "numeral"}
                         /\ 1 <= stored.num /\ stored.num <= 1000) => w = stored.num

\* a tile stored with weight 50.0 on its mesh data alone reached generate
\* with weight 10.0
C21_Witness ==
    /\ entry = "execute"
    /\ InGenerate
    /\ Len(bases) = 1
    /\ SourceMeshes[1].WFC_WEIGHT = Missing
    /\ SourceMeshes[1].data_WFC_WEIGHT = Number(5000)
    /\ bases[1].weight = 1000

\* a run of the grid harness in which the call of collapse_random is over
CollapseRandomEnded == entry = "WFCGrid" /\ call.fn = "collapse_random" /\ ret.done

\* the cells collapse_random may pick in the grid it was called on
Unresolved ==
    {c \in CellIndices : call.collapsed[c] = None /\ Cardinality(call.possible[c]) > 1}

(***************************************************************************)
(* C22.  Stated as the contract of collapse_random: the call returns; it   *)
(* returns None, leaving the grid as it was, if and only if no uncollapsed *)
(* cell has more than one possibility; otherwise the cell it returns was   *)
(* uncollapsed with more than one possibility, and no such cell had fewer. *)
(* The code does not deliver it: the call ends in an AttributeError.       *)
(***************************************************************************)
C22_CollapsesMinimumEntropyCell ==
    CollapseRandomEnded
        => /\ raised = ""
           /\ (ret.idx = None) <=> (Unresolved = {})
           /\ (ret.idx = None)
                => (possible_tiles_for_cells = call.possible /\ collapsed = call.collapsed)
           /\ (ret.idx # None)
                => /\ ret.idx \in Unresolved
                   /\ \A c \in Unresolved :
                        Cardinality(call.possible[ret.idx]) <= Cardinality(call.possible[c])

(***************************************************************************)
(* C23.  Stated as the contract of collapse_random on a grid with an       *)
(* unresolved cell: the call returns an index idx; the chosen value was in *)
(* that cell's possibility set before the call; afterwards the cell's set  *)
(* is {chosen} and collapsed[idx] = chosen; no other cell's set or         *)
(* collapsed value changed.  The code does not deliver it: the call ends   *)
(* in an AttributeError and stores nothing.                                 *)
(***************************************************************************)
C23_CollapseNarrowsOneCell ==
    (CollapseRandomEnded /\ Unresolved # {})
        => /\ raised = ""
           /\ ret.idx \in CellIndices
           /\ collapsed[ret.idx] \in call.possible[ret.idx]
           /\ possible_tiles_for_cells[ret.idx] = {collapsed[ret.idx]}
           /\ \A c \in CellIndices \ {ret.idx} :
                /\ possible_tiles_for_cells[c] = call.possible[c]
                /\ collapsed[c] = call.collapsed[c]

(***************************************************************************)
(* C24.  The per-cell possibility store is one: the attribute that         *)
(* _entropy_cell_indices and is_solved read and collapse_random writes is  *)
(* the attribute that propagate reads and narrows, the instance has it,    *)
(* and generate reads the same one; so a call of collapse_random on a grid *)
(* ends without an exception.  The code has two names: __init__ binds and  *)
(* propagate uses possible_tiles_for_cells, every other reader and writer  *)
(* uses cells, which the instance does not have.                            *)
(***************************************************************************)
C24_OneCellStore ==
    CollapseRandomEnded
        => /\ \A method \in DOMAIN cell_store :
                cell_store[method] = cell_store["propagate"] /\ HasAttr(cell_store[method])
           /\ generate_cell_store = cell_store["propagate"]
           /\ raised = ""

\* a run of the grid harness in which propagate has returned
PropagateReturned == entry = "WFCGrid" /\ call.fn = "propagate" /\ ret.done

\* the cells propagate had on its queue: those collapsed when it was called
\* and those whose set it narrowed
Swept ==
    {c \in CellIndices :
        call.collapsed[c] # None \/ possible_tiles_for_cells[c] # call.possible[c]}

\* the arc from cell c to its neighbour n in direction DIRECTIONS[k] is
\* consistent: every tile left in n is allowed next to some tile left in c
ArcConsistent(c, k, n) ==
    possible_tiles_for_cells[n]
        \subseteq UNION {adjacency[DIRECTIONS[k][1]][v] : v \in possible_tiles_for_cells[c]}

(***************************************************************************)
(* C25, as the specification states it: whenever propagate returns True,   *)
(* for every cell C, collapsed or not, and every in-bounds neighbour N of C *)
(* in direction D, every value in N's possibility set belongs to the union *)
(* over v in C's possibility set of adjacency[D][v].  propagate starts its  *)
(* queue with the collapsed cells only, so the arcs out of a cell that was *)
(* never on the queue are never looked at: on a grid with no collapsed cell *)
(* it returns True at once whatever the sets hold.                          *)
(***************************************************************************)
C25_ArcConsistentEverywhere ==
    (PropagateReturned /\ ret.value)
        => \A c \in CellIndices, n \in CellIndices : \A k \in 1..Len(DIRECTIONS) :
               IsNeighbour(c, k, n) => ArcConsistent(c, k, n)

(***************************************************************************)
(* C25, as the code has it: whenever propagate returns True, for every     *)
(* cell C that was on its queue (collapsed when propagate was called, or   *)
(* narrowed by it) and every in-bounds neighbour N of C in direction D,    *)
(* every value in N's possibility set belongs to the union over v in C's   *)
(* possibility set of adjacency[D][v].                                      *)
(***************************************************************************)
C25_ArcConsistentFromSweptCells ==
    (PropagateReturned /\ ret.value)
        => \A c \in Swept, n \in CellIndices : \A k \in 1..Len(DIRECTIONS) :
               IsNeighbour(c, k, n) => ArcConsistent(c, k, n)

\* propagate returned True after narrowing an uncollapsed cell and, from that
\* cell, one of its neighbours
C25_Witness ==
    /\ PropagateReturned /\ ret.value
    /\ \E c \in CellIndices, n \in CellIndices, k \in 1..Len(DIRECTIONS) :
         /\ IsNeighbour(c, k, n)
         /\ call.collapsed[c] = None
         /\ call.collapsed[n] = None
         /\ possible_tiles_for_cells[c] # call.possible[c]
         /\ possible_tiles_for_cells[n] # call.possible[n]
         /\ possible_tiles_for_cells[n]
                = call.possible[n] \cap adjacency[DIRECTIONS[k][1]][collapsed[c]]

(***************************************************************************)
(* C26.  Whenever propagate returns True, for every collapsed cell C with  *)
(* value v and every in-bounds neighbour N of C in direction D, N's        *)
(* possibility set is a subset of adjacency[D][v]; hence, when every cell  *)
(* is collapsed, every adjacent pair of cells is adjacency-consistent.     *)
(***************************************************************************)
C26_NeighboursOfCollapsedRestricted ==
    (PropagateReturned /\ ret.value)
        => /\ \A c \in CellIndices, n \in CellIndices : \A k \in 1..Len(DIRECTIONS) :
                (IsNeighbour(c, k, n) /\ collapsed[c] # None)
                    => possible_tiles_for_cells[n]
                           \subseteq adjacency[DIRECTIONS[k][1]][collapsed[c]]
           /\ (\A c \in CellIndices : collapsed[c] # None)
                => \A c \in CellIndices, n \in CellIndices : \A k \in 1..Len(DIRECTIONS) :
                       IsNeighbour(c, k, n)
                           => collapsed[n] \in adjacency[DIRECTIONS[k][1]][collapsed[c]]

\* propagate returned True on a grid it finished collapsing: some cell was
\* collapsed by it, and every cell is collapsed
C26_Witness ==
    /\ PropagateReturned /\ ret.value
    /\ \A c \in CellIndices : collapsed[c] # None
    /\ \E c \in CellIndices : call.collapsed[c] = None /\ Cardinality(call.possible[c]) > 1

(***************************************************************************)
(* C27.  Stated as the contract of a run of the operator on two or more    *)
(* tiles: generate returns; it collapsed at least one cell; it emitted one *)
(* build event per main-loop iteration that collapsed a cell, no two of    *)
(* them for the same cell, and no more build events than placements.  The  *)
(* code does not deliver it: no cell is collapsed, no event is emitted and *)
(* nothing is returned.                                                     *)
(***************************************************************************)
C27_OneBuildEventPerCollapse ==
    (entry = "execute" /\ GenerateEnded /\ ValidInput /\ Len(bases) >= 2)
        => LET BuildEvents == SelectSeq(events, LAMBDA e : e[1] = "build")
           IN  /\ result.returned
               /\ collapses >= 1
               /\ Len(BuildEvents) = collapses
               /\ \A a, b \in 1..Len(BuildEvents) :
                    (BuildEvents[a][2] = BuildEvents[b][2]) => (a = b)
               /\ Len(BuildEvents) <= Len(result.placements)

(***************************************************************************)
(* C28.  Stated as the contract of generate on two tiles that fit next to  *)
(* nothing, in a grid of two or more cells, where the first propagate      *)
(* returns False: generate collapses one cell and no more, keeps that cell *)
(* collapsed, and returns it as the only placement.  The code does not     *)
(* deliver it: no cell is collapsed and nothing is returned.               *)
(***************************************************************************)
C28_NoRetryAfterStall ==
    (entry = "generate" /\ bases = TwoNA /\ NumCells(size) >= 2 /\ ValidInput /\ GenerateEnded)
        => /\ result.returned
           /\ collapses = 1
           /\ Cardinality({c \in CellIndices : collapsed[c] # None}) = 1
           /\ Len(result.placements) = 1

(***************************************************************************)
(* C29.  Stated as the contract of collapse_random on a grid with an       *)
(* unresolved cell and tiles of weight 0.01 to 10: the call returns the    *)
(* cell it collapsed, and the draw was made with one weight per option of  *)
(* that cell, each strictly positive.  The code does not deliver it: the   *)
(* call ends in an AttributeError before any weight is computed.           *)
(***************************************************************************)
C29_EveryOptionHasPositiveWeight ==
    (/\ CollapseRandomEnded /\ Unresolved # {}
     /\ \A k \in 1..Len(variants) : 1 <= variants[k].weight /\ variants[k].weight <= 1000)
        => /\ raised = ""
           /\ ret.idx \in Unresolved
           /\ Len(ret.weights) = Cardinality(call.possible[ret.idx])
           /\ \A k \in 1..Len(ret.weights) : ret.weights[k] > 0

(***************************************************************************)
(* C30.  Stated as the contract of generate with a repair pass configured: *)
(* generate returns after at least one repair pass; every repair event     *)
(* names a collapsed cell and a variant, and the last repair event of a    *)
(* cell names the value the cell ends with; a cell whose value is not      *)
(* allowed by its collapsed neighbours while some value is, was examined   *)
(* in a pass that made a reassignment.  The code does not deliver it: no   *)
(* repair pass runs and nothing is returned.                                *)
(***************************************************************************)
C30_RepairReassignsIntoAllowed ==
    (GenerateEnded /\ ValidInput /\ post_repair_passes > 0)
        => /\ result.returned
           /\ repair_passes >= 1
           /\ \A a \in 1..Len(RepairEvents) :
                LET idx == index_of_cell(size, RepairEvents[a][2][1], RepairEvents[a][2][2],
                                         RepairEvents[a][2][3])
                IN  /\ idx \in CellIndices
                    /\ RepairEvents[a][3] \in 0..(Len(variants) - 1)
                    /\ collapsed[idx] # None
                    /\ (\A b \in (a + 1)..Len(RepairEvents) :
                            RepairEvents[b][2] # RepairEvents[a][2])
                         => collapsed[idx] = RepairEvents[a][3]
           /\ (\E idx \in CellIndices :
                   /\ collapsed[idx] # None
                   /\ RepairAllowed(idx) # {}
                   /\ collapsed[idx] \notin RepairAllowed(idx))
                => RepairEvents # <<>>

(***************************************************************************)
(* C39.  Index round trip: for every in-bounds (x, y, z), the index        *)
(* x + sizeX*(y + sizeY*z) lies in 0..sizeX*sizeY*sizeZ-1, no other        *)
(* in-bounds position has the same index, and decoding the index           *)
(* (idx mod sizeX, (idx div sizeX) mod sizeY, idx div (sizeX*sizeY)) gives *)
(* (x, y, z) back; neighbors yields only in-bounds positions.               *)
(***************************************************************************)
C39_IndexRoundTrip ==
    (entry = "index_of_cell" /\ ret.done)
        => /\ in_bounds(size, call.pos[1], call.pos[2], call.pos[3])
                => /\ ret.idx \in 0..(size[1] * size[2] * size[3] - 1)
                   /\ ret.pos = call.pos
                   /\ \A p \in IndexPositions :
                        (in_bounds(size, p[1], p[2], p[3])
                            /\ index_of_cell(size, p[1], p[2], p[3]) = ret.idx)
                          => p = call.pos
           /\ \A k \in 1..Len(ret.nbrs) :
                in_bounds(size, ret.nbrs[k][2][1], ret.nbrs[k][2][2], ret.nbrs[k][2][3])

\* an in-bounds position off every axis origin, in a grid whose two
\* horizontal sizes differ, was indexed and decoded, and it has neighbours
C39_Witness ==
    /\ entry = "index_of_cell" /\ ret.done
    /\ size[1] # size[2]
    /\ in_bounds(size, call.pos[1], call.pos[2], call.pos[3])
    /\ call.pos[1] > 0 /\ call.pos[2] > 0 /\ call.pos[3] > 0
    /\ Len(ret.nbrs) >= 3

(***************************************************************************)
(* C35.  The table built by build_adjacency is converse-symmetric: for     *)
(* every direction D and all indices i, j, j is in allowed[D][i] if and    *)
(* only if i is in allowed[opposite(D)][j].                                *)
(***************************************************************************)
C35_ConverseSymmetric ==
    (ret.done /\ call.fn = "build_adjacency") =>
        \A d \in DirNames : \A i, j \in 0..(Len(call.tiles) - 1) :
            (j \in ret.value[d][i]) <=> (i \in ret.value[OPPOSITE[d]][j])

\* a table of two tiles with different faces has been built in which the
\* second is allowed east of the first, the first is not allowed east of the
\* second, and the first is allowed west of the second
C35_Witness ==
    /\ ret.done
    /\ call.fn = "build_adjacency"
    /\ Len(call.tiles) = 2
    /\ 1 \in ret.value["EAST"][0]
    /\ 0 \notin ret.value["EAST"][1]
    /\ 0 \in ret.value["WEST"][1]

(***************************************************************************)
(* C38.  The guidance function returned by build_guidance_from_settings   *)
(* returns a value >= 0 for every in-grid position, every tile index and   *)
(* every setting of heightmap_influence from 0.0 to 5.0.  The code returns *)
(* 1.0 + (m - 1.0) * influence with m as low as 0.12, which is negative     *)
(* for every influence above 1.14.                                          *)
(***************************************************************************)
C38_GuidanceNonNegative ==
    (/\ entry = "build_guidance_from_settings"
     /\ ret.done /\ ret.raised = ""
     /\ call.x < call.cfg.size[1] /\ call.y < call.cfg.size[2] /\ call.z < call.cfg.size[3])
        => ret.value >= 0

\* _rotate_sockets has been called once on call.original
RotateSocketsOnce == entry = "_rotate_sockets" /\ ret.done /\ ret.calls = 1

\* the list original holds at face d, ["*"] when it names no such face
OriginalFace(d) == IF d \in DOMAIN call.original THEN call.original[d] ELSE <<Star>>

\* the tokens of a list with their suffixes rotated by rot
SuffixRotated(tokens, rot) ==
    [k \in 1..Len(tokens) |-> _rotate_token_suffix(tokens[k], rot % 4)]

\* UP and DOWN come back as they were, and four calls with rot = 1 on a map
\* that names all six faces give the map back
RotateSocketsVerticalAndClosure ==
    /\ RotateSocketsOnce
         => /\ ret.value["UP"] = OriginalFace("UP")
            /\ ret.value["DOWN"] = OriginalFace("DOWN")
    /\ (/\ entry = "_rotate_sockets" /\ ret.done
        /\ call.rot = 1 /\ ret.calls = Len(_CARDINAL)
        /\ DOMAIN call.original = DirNames)
         => ret.value = call.original

generate_result_keys == {"placements", "variants", "size"}

\* MARSWFC_OT_Generate.execute, lines 192-203: the keys it reads from the
\* dict generate returned
execute_result_reads == {"placements", "bases"}

(***************************************************************************)
(* C36.  Stated as the contract of a run of the operator: the variant list *)
(* holds exactly one rot = 0 variant per base tile in input order, so      *)
(* every index a cell can hold is the index of its base tile in the list   *)
(* read from the collection; generate returns, and the operator resolves   *)
(* each placement's index through that list, reading from the result only  *)
(* what generate put there.  The identity part holds; the code does not    *)
(* deliver the rest: generate raises, and the operator looks the tile of a *)
(* placement up under a key the result does not have.                       *)
(***************************************************************************)
C36_IndexResolvesToBase ==
    (entry = "execute" /\ GenerateEnded /\ ValidInput)
        => /\ Len(variants) = Len(bases)
           /\ \A idx \in CellIndices : \A vi \in possible_tiles_for_cells[idx] :
                /\ vi \in 0..(Len(bases) - 1)
                /\ variants[vi + 1].name = <<bases[vi + 1].name, 0>>
                /\ variants[vi + 1].rot = 0
           /\ result.returned
           /\ execute_result_reads \subseteq generate_result_keys

\* every two adjacent collapsed cells hold values the table allows side by side
CollapsedConsistent ==
    \A c \in CellIndices, n \in CellIndices : \A k \in 1..Len(DIRECTIONS) :
        (IsNeighbour(c, k, n) /\ collapsed[c] # None /\ collapsed[n] # None)
            => collapsed[n] \in adjacency[DIRECTIONS[k][1]][collapsed[c]]

(***************************************************************************)
(* C31.  Stated as the contract of generate with a repair pass configured, *)
(* on a grid whose adjacent collapsed cells are consistent: generate       *)
(* returns, the repair phase reassigned no cell, and the placements are    *)
(* the collapsed values.  The code does not deliver it: the repair phase   *)
(* is never reached and nothing is returned.                                *)
(***************************************************************************)
C31_RepairKeepsConsistentGrid ==
    (GenerateEnded /\ ValidInput /\ post_repair_passes > 0 /\ CollapsedConsistent)
        => /\ result.returned
           /\ RepairEvents = <<>>
           /\ result.placements = CollapsedPlacements

(***************************************************************************)
(* C32.  Stated as the contract of generate with a repair pass configured: *)
(* generate returns after the repair phase; the placements are as many as  *)
(* the collapsed cells, and every cell a repair event names is one of      *)
(* them.  The code does not deliver it: the repair phase is never reached  *)
(* and nothing is returned.                                                 *)
(***************************************************************************)
C32_RepairKeepsCollapsedSet ==
    (GenerateEnded /\ ValidInput /\ post_repair_passes > 0)
        => /\ result.returned
           /\ Len(result.placements) = Cardinality({c \in CellIndices : collapsed[c] # None})
           /\ \A a \in 1..Len(RepairEvents) : \E b \in 1..Len(result.placements) :
                /\ result.placements[b][1] = RepairEvents[a][2][1]
                /\ result.placements[b][2] = RepairEvents[a][2][2]
                /\ result.placements[b][3] = RepairEvents[a][2][3]

(***************************************************************************)
(* C33.  In every call of collapse_random and of propagate each cell's     *)
(* possibility set only shrinks (the new set is a subset of the previous   *)
(* one), and a cell that is collapsed to v keeps its value and its         *)
(* possibility set.                                                         *)
(***************************************************************************)
C33_SetsOnlyShrink ==
    [][entry = "WFCGrid" =>
         \A c \in CellIndices :
             /\ possible_tiles_for_cells'[c] \subseteq possible_tiles_for_cells[c]
             /\ (collapsed[c] # None)
                  => /\ collapsed'[c] = collapsed[c]
                     /\ possible_tiles_for_cells'[c] = possible_tiles_for_cells[c]]_vars

\* propagate has returned from a grid with a collapsed cell, which it left as
\* it was, after narrowing one cell to a single value, which it marked
\* collapsed, and another to fewer values than it had
C33_Witness ==
    /\ entry = "WFCGrid" /\ call.fn = "propagate" /\ ret.done
    /\ \E c0 \in CellIndices, c1 \in CellIndices, c2 \in CellIndices :
         /\ call.collapsed[c0] # None
         /\ collapsed[c0] = call.collapsed[c0]
         /\ possible_tiles_for_cells[c0] = call.possible[c0]
         /\ call.collapsed[c1] = None /\ collapsed[c1] # None
         /\ Cardinality(call.possible[c1]) > 1
         /\ c2 # c1
         /\ possible_tiles_for_cells[c2] # call.possible[c2]
         /\ possible_tiles_for_cells[c2] \subseteq call.possible[c2]

(***************************************************************************)
(* C34.  The outcome of propagate does not depend on the order in which    *)
(* queue entries are processed: from the same grid, a sweep in any order   *)
(* ends with the True/False result of propagate, and when the result is    *)
(* True with the possibility sets and collapsed values propagate leaves.   *)
(***************************************************************************)
C34_OrderIndependent ==
    (entry = "propagate_order" /\ ret.done)
        => LET fifo == propagate(size, adjacency, call.possible, call.collapsed)
           IN  /\ ret.value = fifo.value
               /\ ret.value
                    => /\ possible_tiles_for_cells = fifo.possible
                       /\ collapsed = fifo.collapsed

\* a sweep that started with two or more collapsed cells on its queue returned
\* True after narrowing two cells that were not collapsed
C34_Witness ==
    /\ entry = "propagate_order" /\ ret.done /\ ret.value
    /\ Cardinality({c \in CellIndices : call.collapsed[c] # None}) >= 2
    /\ \E c1 \in CellIndices, c2 \in CellIndices :
         /\ c1 # c2
         /\ call.collapsed[c1] = None /\ call.collapsed[c2] = None
         /\ possible_tiles_for_cells[c1] # call.possible[c1]
         /\ possible_tiles_for_cells[c2] # call.possible[c2]


====
